---- MODULE Spec2Model ----
(***************************************************************************)
(* Verification model of the BaseTable virtualization engine of            *)
(* ali-react-table (base-table/table.tsx, carried in the file              *)
(* src/packages/ali-react-table/src/base-table/empty.tsx)                  *)
(* and of the sort feature (pipeline/features/sort.tsx).                   *)
(*                                                                         *)
(* Six specifications share the variables below:                           *)
(*   SpecHoz     - getHorizontalRenderRange as a function of the state     *)
(*   SpecRender  - the render passes of renderTableBody (rows, cells,      *)
(*                 spans)                                                  *)
(*   SpecView    - the viewport and scroll handlers with their hysteresis  *)
(*   SpecLife    - the subscriptions of initSubscriptions from             *)
(*                 componentDidMount to componentWillUnmount               *)
(*   SpecMeasure - render, paint and updateRowHeightManager                *)
(*   SpecSort    - sortStep and onChangeSorts of the sort feature          *)
(* Pixel quantities are scaled: OVERSCAN_SIZE is 4 pixels here.            *)
(***************************************************************************)
EXTENDS Integers, Sequences, FiniteSets, TLC

\* ---------------------------------------------------------------- bounds
MaxCenter == 3
MaxFixed == 1
MaxOffsetX == 12
MaxRenderWidth == 6
MaxRows == 2
MaxSpan == 2
MaxOffsetY == 3
MaxGrow == 2
MaxScrollLeft == 3
MaxViewHeight == 3

\* ------------------------------------------------------------- constants
OVERSCAN_SIZE == 4
InitMaxRenderHeight == 600
InitMaxRenderWidth == 800
EmptyCellHeight == 200
ColWidths == {2, 6}

\* --------------------------------------------------------------- helpers
Abs(x) == IF x < 0 THEN -x ELSE x

Min(a, b) == IF a < b THEN a ELSE b

Max(a, b) == IF a > b THEN a ELSE b

RECURSIVE sum(_)
sum(s) == IF Len(s) = 0 THEN 0 ELSE Head(s) + sum(Tail(s))

\* JavaScript Array.prototype.slice(from, to) on a 0-based array
Slice(s, from, to) == SubSeq(s, Min(from, Len(s)) + 1, Min(to, Len(s)))

SeqsUpTo(S, n) == UNION {[1..k -> S] : k \in 0..n}

None == [none |-> TRUE]

VARIABLES
    \* BaseTableState and props
    flat, useVirtual, offsetX, maxRenderWidth, rowCount,
    offsetY, maxRenderHeight, flowRoot, isLoading,
    \* the render range of the current render() call
    hoz, ver,
    \* position of renderTableBody in its pass, and the pass's SpanManager
    pc, rowIndex, wi, rects, cell,
    \* history: the SpanManager calls of the current renderRow call, and the
    \* rowIndex of the renderRow call before it (-1 if there is none)
    calls, prevRow,
    \* lifecycle, DOM scroll position and the subscriptions of initSubscriptions
    life, scrollLeft, subs, chains, combined, distinctPrev,
    \* history: the latest viewport event and what the last handler did
    latest, last,
    \* the row heights held by rowHeightManager, the rows of the painted table
    \* body, and what the last updateRowHeightManager call did
    cache, dom, measure,
    \* the sort feature: its options, the pipeline state at key 'sort', the
    \* sorts handed to the sort transform, and the calls of onChangeSorts
    sortOpts, sortState, handed, sortLog

viewVars == <<offsetY, maxRenderHeight, flowRoot, isLoading, life, scrollLeft, subs, chains,
              combined, distinctPrev, latest, last>>
measureVars == <<cache, dom, measure>>
sortVars == <<sortOpts, sortState, handed, sortLog>>
stateVars == <<flat, useVirtual, offsetX, maxRenderWidth, rowCount, viewVars, measureVars, sortVars>>
passVars == <<ver, pc, rowIndex, wi, rects, cell, calls, prevRow>>
vars == <<flat, useVirtual, offsetX, maxRenderWidth, rowCount, hoz, passVars, viewVars,
          measureVars, sortVars>>

\* flat.full is the concatenation of flat.left, flat.center and flat.right
\* (the colIndex arithmetic of getFlatHozWrappedCols); only the sizes of the
\* fixed groups matter to the engine
FullCount(fl) == fl.left + Len(fl.center) + fl.right

\* ---------------------------------------------- getHorizontalRenderRange
overscannedOffsetX(ox) == Max(0, ox - OVERSCAN_SIZE)

SkipLeftColOrEqual(width, leftBlank, ovOffsetX) == width + leftBlank <= ovOffsetX

\* condition of the first while loop: the column is skipped
SkipLeftCol(width, leftBlank, ovOffsetX) == width + leftBlank < ovOffsetX

RECURSIVE LeftLoop(_, _, _, _)
LeftLoop(center, ovOffsetX, leftIndex, leftBlank) ==
    IF leftIndex < Len(center)
       /\ SkipLeftCol(center[leftIndex + 1], leftBlank, ovOffsetX)
    THEN LeftLoop(center, ovOffsetX, leftIndex + 1, leftBlank + center[leftIndex + 1])
    ELSE [leftIndex |-> leftIndex, leftBlank |-> leftBlank]

minCenterRenderWidth(mrw, ovOffsetX, leftBlank) ==
    mrw + (ovOffsetX - leftBlank) + 2 * OVERSCAN_SIZE

\* condition of the second while loop: the column is rendered
TakeCenterCol(width, centerRenderWidth, minWidth) == width + centerRenderWidth < minWidth

RECURSIVE CenterLoop(_, _, _, _, _)
CenterLoop(center, leftIndex, minWidth, centerCount, centerRenderWidth) ==
    IF leftIndex + centerCount < Len(center)
       /\ TakeCenterCol(center[leftIndex + centerCount + 1], centerRenderWidth, minWidth)
    THEN CenterLoop(center, leftIndex, minWidth, centerCount + 1,
                    centerRenderWidth + center[leftIndex + centerCount + 1])
    ELSE centerCount

DisabledRightIndex(fl) == FullCount(fl)

RightBlankStartNegative(len, rightBlankCount) ==
    IF rightBlankCount = 0 THEN 0 ELSE len - rightBlankCount

\* first index of flat.center.slice(flat.center.length - rightBlankCount)
RightBlankStart(len, rightBlankCount) == len - rightBlankCount

getHorizontalRenderRange(fl, uv, ox, mrw) ==
    IF ~uv.horizontal
    THEN [leftIndex |-> 0, leftBlank |-> 0, rightIndex |-> DisabledRightIndex(fl), rightBlank |-> 0]
    ELSE LET ov == overscannedOffsetX(ox)
             l == LeftLoop(fl.center, ov, 0, 0)
             minWidth == minCenterRenderWidth(mrw, ov, l.leftBlank)
             centerCount == CenterLoop(fl.center, l.leftIndex, minWidth, 0, 0)
             rightBlankCount == Len(fl.center) - l.leftIndex - centerCount
             rightBlank == sum(Slice(fl.center, RightBlankStart(Len(fl.center), rightBlankCount),
                                     Len(fl.center)))
         IN [leftIndex |-> l.leftIndex, leftBlank |-> l.leftBlank,
             rightIndex |-> l.leftIndex + centerCount, rightBlank |-> rightBlank]


UseVirtuals == [horizontal : BOOLEAN, vertical : BOOLEAN]

\* ------------------------------------------- constructor / subscriptions
Chains == {"loading", "virtual"}

RootChildrenWithoutScrollSync == {"resize", "loading", "virtual"}

\* the subscriptions initSubscriptions registers with rootSubscription.add
RootChildren == {"resize", "scrollSync", "loading", "virtual"}

NoCall == [op |-> "none", fired |-> FALSE, delta |-> -1, nearPrev |-> FALSE, prevFired |-> FALSE]

\* no updateRowHeightManager call yet
NoMeasure == [updates |-> {}, maxTrRowIndex |-> -1, forced |-> 0, next |-> None]

\* nothing painted, no row height known
MeasureIdle ==
    /\ cache = << >>
    /\ dom = None
    /\ measure = NoMeasure

\* the sort feature is not in use
SortIdle ==
    /\ sortOpts = None
    /\ sortState = None
    /\ handed = None
    /\ sortLog = << >>

\* the fields the constructor sets besides the column state, before mount
Constructed ==
    /\ offsetY = 0
    /\ maxRenderHeight = InitMaxRenderHeight
    /\ flowRoot = "auto"
    /\ isLoading = FALSE
    /\ life = "constructed"
    /\ scrollLeft = 0
    /\ subs = {}
    /\ chains = [c \in Chains |-> [timer |-> FALSE, root |-> "none"]]
    /\ combined = {}
    /\ distinctPrev = None
    /\ latest = None
    /\ last = NoCall

\* ------------------------------------------------------- SpanManager
\* helpers/SpanManager: the rectangles registered in the current pass
testSkip(rs, r, c) ==
    \E rect \in rs : rect.left <= c /\ c < rect.right /\ rect.top <= r /\ r < rect.bottom

stripUpwards(rs, r) == {rect \in rs : rect.bottom > r}

add(rs, r, c, colSpan, rowSpan) ==
    rs \cup {[top |-> r, bottom |-> r + rowSpan, left |-> c, right |-> c + colSpan]}

\* ------------------------------------------------- getFlatHozWrappedCols
Blank == [type |-> "blank", colIndex |-> -1]

NormalCols(first, n) == [i \in 1..n |-> [type |-> "normal", colIndex |-> first + i - 1]]

getFlatHozWrappedColsWithoutLeftCount(fl, hz) ==
    LET shown == Slice(fl.center, hz.leftIndex, hz.rightIndex)
    IN NormalCols(0, fl.left)
       \o (IF hz.leftBlank > 0 THEN <<Blank>> ELSE << >>)
       \o NormalCols(hz.leftIndex, Len(shown))
       \o (IF hz.rightBlank > 0 THEN <<Blank>> ELSE << >>)
       \o NormalCols(FullCount(fl) - fl.right, fl.right)

getFlatHozWrappedCols(fl, hz) ==
    LET shown == Slice(fl.center, hz.leftIndex, hz.rightIndex)
    IN NormalCols(0, fl.left)
       \o (IF hz.leftBlank > 0 THEN <<Blank>> ELSE << >>)
       \o NormalCols(fl.left + hz.leftIndex, Len(shown))
       \o (IF hz.rightBlank > 0 THEN <<Blank>> ELSE << >>)
       \o NormalCols(FullCount(fl) - fl.right, fl.right)

\* ---------------------------------------------------------- renderCell
\* What the column's callbacks return for one cell: kind "rect" is a
\* getSpanRect result (right = colIndex + colSpan, bottom = rowIndex + rowSpan),
\* kind "props" is getCellProps returning {colSpan, rowSpan}.
CellInputs == [kind : {"rect", "props"}, colSpan : 0..MaxSpan, rowSpan : 0..MaxSpan]

ClipRowSpan(rowSpan, bottomIndex, r) == Min(rowSpan, bottomIndex - r)

ClipColSpan(colSpan, leftFlatCount, rightIndex, c) == Min(colSpan, leftFlatCount + rightIndex - c)

\* the colSpan/rowSpan attribute of the created td: {...cellProps,
\* ...(hasSpan ? {colSpan, rowSpan} : null)}; an absent attribute is 1
TdSpanAttr(hasSpan, clipped, kind, fromProps) ==
    IF hasSpan THEN clipped
    ELSE IF kind = "props" THEN fromProps
    ELSE 1

renderCell(rs, vr, hz, fl, r, c, inp) ==
    IF testSkip(rs, r, c)
    THEN [rects |-> rs,
          cell |-> [rowIndex |-> r, colIndex |-> c, skipped |-> TRUE, input |-> None,
                    colSpan |-> 0, rowSpan |-> 0, hasSpan |-> FALSE, added |-> FALSE,
                    tdColSpan |-> 0, tdRowSpan |-> 0]]
    ELSE LET rowSpan == ClipRowSpan(inp.rowSpan, vr.bottomIndex, r)
             colSpan == ClipColSpan(inp.colSpan, fl.left, hz.rightIndex, c)
             hasSpan == colSpan > 1 \/ rowSpan > 1
         IN [rects |-> IF hasSpan THEN add(rs, r, c, colSpan, rowSpan) ELSE rs,
             cell |-> [rowIndex |-> r, colIndex |-> c, skipped |-> FALSE, input |-> inp,
                       colSpan |-> colSpan, rowSpan |-> rowSpan, hasSpan |-> hasSpan,
                       added |-> hasSpan,
                       tdColSpan |-> TdSpanAttr(hasSpan, colSpan, inp.kind, inp.colSpan),
                       tdRowSpan |-> TdSpanAttr(hasSpan, rowSpan, inp.kind, inp.rowSpan)]]

\* ---------------------------------------------------- vertical range
getFullRenderRange(n) == [topIndex |-> 0, bottomIndex |-> n]

\* helpers/rowHeightManager.getRenderRange: any range with
\* 0 <= topIndex <= bottomIndex <= rowCount
VerticalRanges(n) ==
    {[topIndex |-> t, bottomIndex |-> b] : t \in 0..n, b \in 0..n} \cap
    {v \in [topIndex : 0..n, bottomIndex : 0..n] : v.topIndex <= v.bottomIndex}

getVerticalRenderRanges(uv, n) ==
    IF uv.vertical THEN VerticalRanges(n) ELSE {getFullRenderRange(n)}

\* ----------------------------------------------------------- SpecRender
PassIdle ==
    /\ ver = None
    /\ pc = "idle"
    /\ rowIndex = 0
    /\ wi = 0
    /\ rects = {}
    /\ cell = None
    /\ calls = << >>
    /\ prevRow = -1

InitRender ==
    /\ flat \in [left : 0..MaxFixed, center : SeqsUpTo({6}, MaxCenter - 1), right : 0..MaxFixed]
    /\ useVirtual \in UseVirtuals
    /\ offsetX \in {0, MaxOffsetX}
    /\ maxRenderWidth \in {0, MaxRenderWidth}
    /\ rowCount \in 0..MaxRows
    /\ hoz = None
    /\ PassIdle
    /\ Constructed
    /\ MeasureIdle
    /\ SortIdle

\* a call of stripUpwards, testSkip (with its result) or add
TrackerCall(op, r, c, colSpan, rowSpan, result) ==
    [op |-> op, rowIndex |-> r, colIndex |-> c, colSpan |-> colSpan, rowSpan |-> rowSpan,
     result |-> result]

\* render(): getRenderRange(), then renderTableBody up to its first row;
\* every render() call builds a new SpanManager
RenderStart ==
    /\ pc \in {"idle", "empty", "done"}
    /\ hoz' = getHorizontalRenderRange(flat, useVirtual, offsetX, maxRenderWidth)
    /\ ver' \in getVerticalRenderRanges(useVirtual, rowCount)
    /\ rects' = {}
    /\ cell' = None
    /\ wi' = 0
    /\ calls' = << >>
    /\ prevRow' = -1
    /\ IF ver'.bottomIndex - ver'.topIndex = 0
       THEN pc' = "empty" /\ rowIndex' = 0
       ELSE pc' = "row" /\ rowIndex' = ver'.topIndex
    /\ UNCHANGED stateVars

\* renderRow up to its first cell, or the end of the pass
RenderRow ==
    /\ pc = "row"
    /\ IF rowIndex < ver.bottomIndex
       THEN /\ rects' = stripUpwards(rects, rowIndex)
            /\ calls' = <<TrackerCall("stripUpwards", rowIndex, -1, 0, 0, FALSE)>>
            /\ prevRow' = IF calls = << >> THEN -1 ELSE calls[1].rowIndex
            /\ wi' = 1
            /\ pc' = "cells"
       ELSE /\ pc' = "done"
            /\ UNCHANGED <<rects, wi, calls, prevRow>>
    /\ UNCHANGED <<stateVars, hoz, ver, rowIndex, cell>>

\* one element of wrappedCols.map(...) in renderRow
RenderCell ==
    /\ pc = "cells"
    /\ LET wrappedCols == getFlatHozWrappedCols(flat, hoz)
       IN IF wi > Len(wrappedCols)
          THEN /\ pc' = "row"
               /\ rowIndex' = rowIndex + 1
               /\ UNCHANGED <<wi, rects, cell, calls>>
          ELSE /\ wi' = wi + 1
               /\ UNCHANGED <<pc, rowIndex>>
               /\ IF wrappedCols[wi].type = "blank"
                  THEN cell' = None /\ UNCHANGED <<rects, calls>>
                  ELSE \E inp \in CellInputs :
                          LET c == wrappedCols[wi].colIndex
                              res == renderCell(rects, ver, hoz, flat, rowIndex, c, inp)
                          IN /\ cell' = res.cell
                             /\ rects' = res.rects
                             /\ calls' = calls
                                   \o <<TrackerCall("testSkip", rowIndex, c, 0, 0, res.cell.skipped)>>
                                   \o (IF res.cell.added
                                       THEN <<TrackerCall("add", rowIndex, c,
                                                          res.cell.colSpan, res.cell.rowSpan, FALSE)>>
                                       ELSE << >>)
    /\ UNCHANGED <<stateVars, hoz, ver, prevRow>>

NextRender == RenderStart \/ RenderRow \/ RenderCell

SpecRender == InitRender /\ [][NextRender]_vars

\* ------------------------------------------------------------- SpecView
ViewportEvents ==
    [offsetY : 0..MaxOffsetY,
     maxRenderHeight : {InitMaxRenderHeight, InitMaxRenderHeight + MaxGrow},
     maxRenderWidth : {InitMaxRenderWidth, InitMaxRenderWidth + MaxGrow}]

FlowRoots == {"auto", "self", "fn"}

\* |d| >= OVERSCAN_SIZE / 2
HalfOverscanReached(d) == 2 * Abs(d) >= OVERSCAN_SIZE

SameViewportWholeOverscan(x, y) ==
    /\ Abs(x.maxRenderWidth - y.maxRenderWidth) < OVERSCAN_SIZE
    /\ Abs(x.maxRenderHeight - y.maxRenderHeight) < OVERSCAN_SIZE
    /\ Abs(x.offsetY - y.offsetY) < OVERSCAN_SIZE

SameViewportAtMostHalf(x, y) ==
    /\ 2 * Abs(x.maxRenderWidth - y.maxRenderWidth) <= OVERSCAN_SIZE
    /\ 2 * Abs(x.maxRenderHeight - y.maxRenderHeight) <= OVERSCAN_SIZE
    /\ 2 * Abs(x.offsetY - y.offsetY) <= OVERSCAN_SIZE

SameViewportExact(x, y) == x = y

\* the comparator handed to distinctUntilChanged: x is the last emitted
\* value, y the incoming one; TRUE suppresses y
SameViewport(x, y) ==
    /\ 2 * Abs(x.maxRenderWidth - y.maxRenderWidth) < OVERSCAN_SIZE
    /\ 2 * Abs(x.maxRenderHeight - y.maxRenderHeight) < OVERSCAN_SIZE
    /\ 2 * Abs(x.offsetY - y.offsetY) < OVERSCAN_SIZE

\* largest change among the three fields of two viewport samples
MaxAbsDiff(x, y) ==
    Max(Abs(x.maxRenderWidth - y.maxRenderWidth),
        Max(Abs(x.maxRenderHeight - y.maxRenderHeight), Abs(x.offsetY - y.offsetY)))

\* updateOffsetX: the offsetX after the call
updateOffsetX(uv, ox, nextOffsetX) ==
    IF uv.horizontal /\ HalfOverscanReached(nextOffsetX - ox) THEN nextOffsetX ELSE ox

\* the switchMap over props.flowRoot of one chain: the previous inner
\* observable (a pending timer) is dropped, a function flowRoot waits for an
\* animation frame, any other flowRoot is resolved at once
SwitchFlowRoot(ch, fr, overflowY) ==
    IF fr = "fn"
    THEN [timer |-> TRUE, root |-> ch.root]
    ELSE [timer |-> FALSE,
          root |-> IF fr = "self" THEN "wrapper"
                   ELSE IF overflowY # "visible" THEN "wrapper" ELSE "window"]

\* data$.next(...) as seen by the subscribed chains
DataNext(chs, active, fr, overflowY) ==
    [c \in Chains |-> IF c \in active THEN SwitchFlowRoot(chs[c], fr, overflowY) ELSE chs[c]]

Resolved(ch) == ch.root \notin {"none", "notReady"}

InitMounting(FR, LD) ==
    /\ flat = [left |-> 0, center |-> <<6, 6>>, right |-> 0]
    /\ useVirtual \in UseVirtuals
    /\ offsetX = 0
    /\ maxRenderWidth = InitMaxRenderWidth
    /\ rowCount = MaxRows
    /\ hoz = None
    /\ PassIdle
    /\ offsetY = 0
    /\ maxRenderHeight = InitMaxRenderHeight
    /\ flowRoot \in FR
    /\ isLoading \in LD
    /\ life = "constructed"
    /\ scrollLeft = 0
    /\ subs = {}
    /\ chains = [c \in Chains |-> [timer |-> FALSE, root |-> "none"]]
    /\ combined = {}
    /\ distinctPrev = None
    /\ latest = None
    /\ last = NoCall
    /\ MeasureIdle
    /\ SortIdle

fixedInView == <<flat, rowCount, hoz, passVars, measureVars, sortVars>>

\* componentDidMount: initSubscriptions, then didMountOrUpdate
Mount ==
    /\ life = "constructed"
    /\ life' = "mounted"
    /\ subs' = {"resize", "scrollSync", "loading", "virtual"}
    /\ \E overflowY \in {"visible", "auto"} :
          chains' = DataNext(chains, Chains, flowRoot, overflowY)
    /\ combined' = IF isLoading THEN {"loading"} ELSE {}
    /\ offsetX' = updateOffsetX(useVirtual, offsetX, scrollLeft)
    /\ last' = [NoCall EXCEPT !.op = "mount"]
    /\ UNCHANGED <<fixedInView, useVirtual, maxRenderWidth, offsetY, maxRenderHeight, flowRoot,
                   isLoading, scrollLeft, distinctPrev, latest>>

\* visiblePart$ of the virtual chain emits a sample drawn from E: filter, map,
\* distinctUntilChanged, setState, and the componentDidUpdate the setState causes
ViewportEventIn(E) ==
    /\ "virtual" \in subs
    /\ Resolved(chains["virtual"])
    /\ \E e \in E, overflowY \in {"visible", "auto"} :
          LET passes == useVirtual.horizontal \/ useVirtual.vertical
              emits == passes /\ (distinctPrev = None \/ ~SameViewport(distinctPrev, e))
          IN /\ IF emits
                THEN /\ distinctPrev' = e
                     /\ offsetY' = e.offsetY
                     /\ maxRenderHeight' = e.maxRenderHeight
                     /\ maxRenderWidth' = e.maxRenderWidth
                     /\ chains' = DataNext(chains, subs \cap Chains, flowRoot, overflowY)
                     /\ offsetX' = updateOffsetX(useVirtual, offsetX, scrollLeft)
                ELSE UNCHANGED <<distinctPrev, offsetY, maxRenderHeight, maxRenderWidth,
                                 chains, offsetX>>
             /\ latest' = [evt |-> e, passed |-> passes, fired |-> emits]
             /\ last' = [op |-> "viewport", fired |-> emits,
                         delta |-> IF passes /\ distinctPrev # None
                                   THEN MaxAbsDiff(distinctPrev, e) ELSE -1,
                         nearPrev |-> /\ latest # None
                                      /\ latest.passed
                                      /\ 2 * MaxAbsDiff(latest.evt, e) < OVERSCAN_SIZE,
                         prevFired |-> latest # None /\ latest.fired]
    /\ UNCHANGED <<fixedInView, useVirtual, flowRoot, isLoading, life, scrollLeft, subs, combined>>

\* a scroll event with scrollLeft drawn from X reaches the syncScrollLeft
\* callback: syncHorizontalScroll(x)
HorizontalScrollIn(X) ==
    /\ "scrollSync" \in subs
    /\ \E x \in X, overflowY \in {"visible", "auto"} :
          /\ scrollLeft' = x
          /\ offsetX' = updateOffsetX(useVirtual, offsetX, x)
          /\ chains' = IF offsetX' # offsetX
                       THEN DataNext(chains, subs \cap Chains, flowRoot, overflowY)
                       ELSE chains
          /\ last' = [NoCall EXCEPT !.op = "hscroll", !.fired = (offsetX' # offsetX),
                                    !.delta = IF useVirtual.horizontal
                                              THEN Abs(x - offsetX) ELSE -1]
    /\ UNCHANGED <<fixedInView, useVirtual, maxRenderWidth, offsetY, maxRenderHeight, flowRoot,
                   isLoading, life, subs, combined, distinctPrev, latest>>

\* throttledWindowResize$: updateStickyScroll and adjustNeedRenderLock, which
\* re-render when hasScroll or needRenderLock changes
WindowResize ==
    /\ "resize" \in subs
    /\ \E rerender \in BOOLEAN, overflowY \in {"visible", "auto"} :
          chains' = IF rerender
                    THEN DataNext(chains, subs \cap Chains, flowRoot, overflowY)
                    ELSE chains
    /\ last' = [NoCall EXCEPT !.op = "resize", !.fired = TRUE]
    /\ UNCHANGED <<fixedInView, useVirtual, offsetX, maxRenderWidth, offsetY, maxRenderHeight,
                   flowRoot, isLoading, life, scrollLeft, subs, combined, distinctPrev, latest>>

\* visiblePart$ of the loading chain emits a new clipRect into combineLatest,
\* which calls the subscriber once the isLoading side has emitted too
LoadingClip ==
    /\ "loading" \in subs
    /\ Resolved(chains["loading"])
    /\ combined' = combined \cup {"clip"}
    /\ last' = [NoCall EXCEPT !.op = "clip", !.fired = ("loading" \in combined)]
    /\ UNCHANGED <<fixedInView, useVirtual, offsetX, maxRenderWidth, offsetY, maxRenderHeight,
                   flowRoot, isLoading, life, scrollLeft, subs, chains, distinctPrev, latest>>

AfterFramePeriodic(r) == [timer |-> TRUE, root |-> r]

\* timer(0, animationFrameScheduler) emits once and completes: the chain holds
\* the resolver's result and no timer
AfterFrame(r) == [timer |-> FALSE, root |-> r]

\* an animation frame: the scheduler runs the pending timers of the chains in
\* one flush; op.map(flowRoot) calls the resolver, distinctUntilChanged,
\* switchMap to the visible-part source of the result
FrameTick ==
    /\ \E c \in Chains \cap subs : chains[c].timer
    /\ \E r \in {"notReady", "element"} :
          chains' = [c \in Chains |-> IF c \in subs /\ chains[c].timer
                                      THEN AfterFrame(r)
                                      ELSE chains[c]]
    /\ last' = [NoCall EXCEPT !.op = "frame", !.fired = TRUE]
    /\ UNCHANGED <<fixedInView, useVirtual, offsetX, maxRenderWidth, offsetY, maxRenderHeight,
                   flowRoot, isLoading, life, scrollLeft, subs, combined, distinctPrev, latest>>

\* the parent re-renders the table with new props (flowRoot drawn from FR,
\* isLoading from LD): getDerivedStateFromProps, render, componentDidUpdate
PropsUpdateIn(FR, LD) ==
    /\ life = "mounted"
    /\ flowRoot' \in FR
    /\ useVirtual' \in UseVirtuals
    /\ isLoading' \in LD
    /\ \E overflowY \in {"visible", "auto"} :
          chains' = DataNext(chains, subs \cap Chains, flowRoot', overflowY)
    /\ combined' = IF "loading" \in subs /\ ~isLoading /\ isLoading'
                   THEN combined \cup {"loading"} ELSE combined
    /\ offsetX' = updateOffsetX(useVirtual', offsetX, scrollLeft)
    /\ last' = [NoCall EXCEPT !.op = "props",
                              !.fired = ("loading" \in subs /\ "clip" \in combined
                                         /\ ~isLoading /\ isLoading')]
    /\ UNCHANGED <<fixedInView, maxRenderWidth, offsetY, maxRenderHeight, life, scrollLeft,
                   subs, distinctPrev, latest>>

\* componentWillUnmount: rootSubscription.unsubscribe() releases its children
\* and, with each chain, the chain's inner subscriptions and pending timer
Unmount ==
    /\ life = "mounted"
    /\ life' = "unmounted"
    /\ subs' = subs \ RootChildren
    /\ chains' = [c \in Chains |-> IF c \in RootChildren
                                   THEN [timer |-> FALSE, root |-> chains[c].root]
                                   ELSE chains[c]]
    /\ last' = [NoCall EXCEPT !.op = "unmount"]
    /\ UNCHANGED <<fixedInView, useVirtual, offsetX, maxRenderWidth, offsetY, maxRenderHeight,
                   flowRoot, isLoading, scrollLeft, combined, distinctPrev, latest>>

\* SpecView: the hysteresis of the viewport and scroll handlers, flowRoot 'self'
InitView == InitMounting({"self"}, {FALSE})

NextView ==
    \/ Mount
    \/ ViewportEventIn(ViewportEvents)
    \/ HorizontalScrollIn(0..MaxScrollLeft)
    \/ PropsUpdateIn({"self"}, {FALSE})

SpecView == InitView /\ [][NextView]_vars

\* ------------------------------------------------------------- SpecLife
\* the lifecycle of the subscriptions, over two far-apart viewport samples
\* and the two ends of the scroll range
LifeEvents ==
    {e \in ViewportEvents : /\ e.offsetY \in {0, MaxOffsetY}
                            /\ e.maxRenderHeight = InitMaxRenderHeight
                            /\ e.maxRenderWidth = InitMaxRenderWidth}

InitLife == InitMounting(FlowRoots, BOOLEAN)

NextLife ==
    \/ Mount
    \/ ViewportEventIn(LifeEvents)
    \/ HorizontalScrollIn({0, MaxScrollLeft})
    \/ WindowResize
    \/ LoadingClip
    \/ FrameTick
    \/ PropsUpdateIn(FlowRoots, BOOLEAN)
    \/ Unmount

SpecLife == InitLife /\ [][NextLife]_vars

\* ------------------------------------------------------------- SpecHoz
Flats == [left : 0..MaxFixed, center : SeqsUpTo(ColWidths, MaxCenter), right : 0..MaxFixed]

\* The worked example of horizontal windowing, in units of 5 pixels:
\* five center columns of 50 px, a viewport of 100 px scrolled to 120 px,
\* an overscan of 20 px (OVERSCAN_SIZE = 4 units).
HozExample ==
    [flat |-> [left |-> 0, center |-> <<10, 10, 10, 10, 10>>, right |-> 0],
     useVirtual |-> [horizontal |-> TRUE, vertical |-> FALSE],
     offsetX |-> 24,
     maxRenderWidth |-> 20]

InitHoz ==
    /\ \/ /\ flat \in Flats
          /\ useVirtual \in UseVirtuals
          /\ offsetX \in 0..MaxOffsetX
          /\ maxRenderWidth \in 0..MaxRenderWidth
       \/ /\ flat = HozExample.flat
          /\ useVirtual = HozExample.useVirtual
          /\ offsetX = HozExample.offsetX
          /\ maxRenderWidth = HozExample.maxRenderWidth
    /\ rowCount = 0
    /\ hoz = None
    /\ PassIdle
    /\ Constructed
    /\ MeasureIdle
    /\ SortIdle

HozCall ==
    /\ hoz = None
    /\ hoz' = getHorizontalRenderRange(flat, useVirtual, offsetX, maxRenderWidth)
    /\ UNCHANGED <<stateVars, passVars>>

NextHoz == HozCall

SpecHoz == InitHoz /\ [][NextHoz]_vars

\* ---------------------------------------------------------- SpecMeasure
\* props.estimatedRowHeight: a row's real height, or more than the viewport
EstimatedRowHeights == {1, InitMaxRenderHeight + 2 * OVERSCAN_SIZE}

\* tr.offsetHeight of a painted data row
RowSizes == {1, 3}

\* helpers/rowHeightManager: the height of every row, the estimate until the
\* row is measured
makeRowHeightManager(n, estimatedRowHeight) == [i \in 1..n |-> estimatedRowHeight]

\* a measurement for an index outside [0, rowCount) is ignored
updateRow(ch, index, offset, size) ==
    IF 0 <= index /\ index < Len(ch) THEN [ch EXCEPT ![index + 1] = size] ELSE ch

\* offset of row i: the heights of the rows above it
OffsetOf(ch, i) == sum(Slice(ch, 0, i))

\* rowHeightManager.getRenderRange: the rows of the range cover
\* [offset - OVERSCAN_SIZE, offset + maxRenderHeight + OVERSCAN_SIZE) within the
\* content, an offset outside the content is clamped to it, no row gives the
\* empty range; every result is in VerticalRanges(n)
getRenderRanges(ch, offset, mrh, n) ==
    IF n = 0
    THEN {getFullRenderRange(0)}
    ELSE LET total == sum(ch)
             at == Max(0, Min(offset, total))
             lo == Max(0, at - OVERSCAN_SIZE)
             hi == Min(total, at + Max(mrh, 0) + OVERSCAN_SIZE)
         IN {v \in VerticalRanges(n) : /\ OffsetOf(ch, v.topIndex) <= lo
                                       /\ OffsetOf(ch, v.bottomIndex) >= hi}

getVerticalRenderRangesOf(uv, ch, oy, mrh, n) ==
    IF uv.vertical THEN getRenderRanges(ch, oy, mrh, n) ELSE {getFullRenderRange(n)}

\* the tr of EmptyTable: class Classes.tableRow, data-rowindex 0
PlaceholderRow == [rowIndex |-> 0, size |-> EmptyCellHeight, data |-> FALSE]

\* the trs of renderRow for dataSource.slice(topIndex, bottomIndex)
DataRows(vr, sizes) ==
    [i \in 1..(vr.bottomIndex - vr.topIndex) |->
        [rowIndex |-> vr.topIndex + i - 1, size |-> sizes[i], data |-> TRUE]]

\* the table body render() paints for a vertical range: the top blank and
\* the trs carrying Classes.tableRow, top to bottom
TableBodies(vr, ch) ==
    IF vr.bottomIndex - vr.topIndex = 0
    THEN {[virtualTopHeight |-> 0, trs |-> <<PlaceholderRow>>]}
    ELSE {[virtualTopHeight |-> OffsetOf(ch, vr.topIndex), trs |-> DataRows(vr, sizes)] :
             sizes \in [1..(vr.bottomIndex - vr.topIndex) -> RowSizes]}

\* tr.offsetTop + virtualTopHeight of the i-th tr
TrOffset(body, i) ==
    body.virtualTopHeight + sum([k \in 1..(i - 1) |-> body.trs[k].size])

\* the updateRow calls of the loop over the trs
Updates(body) ==
    {[rowIndex |-> body.trs[i].rowIndex, offset |-> TrOffset(body, i),
      size |-> body.trs[i].size, data |-> body.trs[i].data] : i \in 1..Len(body.trs)}

RECURSIVE UpdateRows(_, _, _)
UpdateRows(ch, body, i) ==
    IF i > Len(body.trs) THEN ch
    ELSE UpdateRows(updateRow(ch, body.trs[i].rowIndex, TrOffset(body, i), body.trs[i].size),
                    body, i + 1)

maxTrRowIndexOf(body) ==
    CHOOSE m \in {-1} \cup {u.rowIndex : u \in Updates(body)} :
        \A u \in Updates(body) : u.rowIndex <= m

maxTrBottomOf(body) ==
    CHOOSE m \in {-1} \cup {u.offset + u.size : u \in Updates(body)} :
        \A u \in Updates(body) : u.offset + u.size <= m

ForceUpdateNeededOrSame(bottomIndex, maxTrRowIndex) == bottomIndex - 1 >= maxTrRowIndex

\* the next render would paint a row below the last painted one
ForceUpdateNeeded(bottomIndex, maxTrRowIndex) == bottomIndex - 1 > maxTrRowIndex

\* SpecMeasure: render, paint and updateRowHeightManager of a mounted table,
\* from the constructor's state on
InitMeasure ==
    /\ flat = [left |-> 0, center |-> <<6, 6>>, right |-> 0]
    /\ useVirtual \in UseVirtuals
    /\ offsetX = 0
    /\ maxRenderWidth = InitMaxRenderWidth
    /\ rowCount \in 0..(MaxRows + 1)
    /\ hoz = None
    /\ PassIdle
    /\ Constructed
    /\ \E est \in EstimatedRowHeights : cache = makeRowHeightManager(rowCount, est)
    /\ dom = None
    /\ measure = NoMeasure
    /\ SortIdle

fixedInMeasure ==
    <<flat, useVirtual, offsetX, maxRenderWidth, rowCount, hoz, rowIndex, wi, rects, cell,
      calls, prevRow, flowRoot, isLoading, life, scrollLeft, subs, chains, combined,
      latest, last, sortVars>>

\* render() and the commit of its table body; a render forced by
\* updateRowHeightManager finds the state and the row heights as that call
\* left them and gets the range that call got
Paint ==
    /\ pc \in {"idle", "forced"}
    /\ ver' \in IF pc = "forced"
                THEN {measure.next}
                ELSE getVerticalRenderRangesOf(useVirtual, cache, offsetY, maxRenderHeight,
                                               rowCount)
    /\ dom' \in TableBodies(ver', cache)
    /\ pc' = "painted"
    /\ UNCHANGED <<fixedInMeasure, distinctPrev, offsetY, maxRenderHeight, cache, measure>>

\* componentDidMount / componentDidUpdate: didMountOrUpdate calls
\* updateRowHeightManager
UpdateRowHeightManager ==
    /\ pc = "painted"
    /\ cache' = UpdateRows(cache, dom, 1)
    /\ LET maxTrRowIndex == maxTrRowIndexOf(dom)
           maxTrBottom == maxTrBottomOf(dom)
           done == [updates |-> Updates(dom), maxTrRowIndex |-> maxTrRowIndex,
                    forced |-> measure.forced, next |-> None]
       IN IF maxTrRowIndex # -1 /\ maxTrBottom < offsetY + maxRenderHeight
          THEN \E vertical \in getVerticalRenderRangesOf(useVirtual, cache', offsetY,
                                                         maxRenderHeight, rowCount) :
                  IF ForceUpdateNeeded(vertical.bottomIndex, maxTrRowIndex)
                     /\ measure.forced <= rowCount
                  THEN /\ pc' = "forced"
                       /\ measure' = [done EXCEPT !.forced = measure.forced + 1,
                                                  !.next = vertical]
                  ELSE /\ pc' = "settled"
                       /\ measure' = done
          ELSE /\ pc' = "settled"
               /\ measure' = done
    /\ UNCHANGED <<fixedInMeasure, distinctPrev, offsetY, maxRenderHeight, ver, dom>>

MeasureEvents ==
    [offsetY : 0..MaxOffsetY,
     maxRenderHeight : {0, MaxViewHeight, InitMaxRenderHeight},
     maxRenderWidth : {InitMaxRenderWidth}]

\* a visible-part event that passes the filter and distinctUntilChanged: the
\* subscriber sets offsetY and maxRenderHeight, which starts a render that
\* updateRowHeightManager did not force
ViewportChange ==
    /\ pc = "settled"
    /\ useVirtual.horizontal \/ useVirtual.vertical
    /\ \E e \in MeasureEvents :
          /\ IF distinctPrev = None THEN TRUE ELSE ~SameViewport(distinctPrev, e)
          /\ distinctPrev' = e
          /\ offsetY' = e.offsetY
          /\ maxRenderHeight' = e.maxRenderHeight
    /\ pc' = "idle"
    /\ measure' = [measure EXCEPT !.forced = 0]
    /\ UNCHANGED <<fixedInMeasure, ver, dom, cache>>

NextMeasure == Paint \/ UpdateRowHeightManager \/ ViewportChange

SpecMeasure == InitMeasure /\ [][NextMeasure]_vars

\* ------------------------------------------------------------- SpecSort
\* pipeline/features/sort.tsx. A SortItem list holds a sequence of column
\* codes; None is an absent (undefined) option or pipeline state.
SortList(items) == [items |-> items]

SortLists == {SortList(<< >>), SortList(<<"a">>), SortList(<<"b">>), SortList(<<"a", "b">>)}

SortOptions ==
    [sorts : SortLists \cup {None}, defaultSorts : SortLists \cup {None},
     onChangeSorts : BOOLEAN]

\* a ?? b
Coalesce(a, b) == IF a = None THEN b ELSE a

sortsOfStateFirst(opts, state) ==
    Coalesce(Coalesce(Coalesce(state, opts.sorts), opts.defaultSorts), SortList(<< >>))

\* opts.sorts ?? pipeline.getStateAtKey(stateKey) ?? opts.defaultSorts ?? []
sortsOf(opts, state) ==
    Coalesce(Coalesce(Coalesce(opts.sorts, state), opts.defaultSorts), SortList(<< >>))

\* the calls made by onChangeSorts(nextSorts), in order
onChangeSortsCalls(opts, nextSorts) ==
    (IF opts.onChangeSorts THEN <<[op |-> "opts.onChangeSorts", arg |-> nextSorts]>> ELSE << >>)
    \o <<[op |-> "setStateAtKey", arg |-> nextSorts]>>

InitSort ==
    /\ flat = [left |-> 0, center |-> <<6, 6>>, right |-> 0]
    /\ useVirtual = [horizontal |-> FALSE, vertical |-> FALSE]
    /\ offsetX = 0
    /\ maxRenderWidth = InitMaxRenderWidth
    /\ rowCount = 0
    /\ hoz = None
    /\ PassIdle
    /\ Constructed
    /\ MeasureIdle
    /\ sortOpts \in SortOptions
    /\ sortState = None
    /\ handed = None
    /\ sortLog = << >>

fixedInSort ==
    <<flat, useVirtual, offsetX, maxRenderWidth, rowCount, hoz, passVars, viewVars, measureVars>>

\* sortStep(pipeline) during a render: the sorts handed to makeSortTransform
SortStep ==
    /\ handed = None
    /\ handed' = sortsOf(sortOpts, sortState)
    /\ UNCHANGED <<fixedInSort, sortOpts, sortState, sortLog>>

\* the sort transform calls the onChangeSorts of the last sortStep; the
\* changed pipeline state makes the pipeline's owner render again
OnChangeSorts ==
    /\ handed # None
    /\ \E nextSorts \in SortLists :
          /\ sortLog' = onChangeSortsCalls(sortOpts, nextSorts)
          /\ sortState' = nextSorts
    /\ handed' = None
    /\ UNCHANGED <<fixedInSort, sortOpts>>

\* the owner renders with other sorts / defaultSorts options
SortOptionsChange ==
    /\ handed # None
    /\ sortOpts' \in SortOptions
    /\ sortOpts'.onChangeSorts = sortOpts.onChangeSorts
    /\ sortOpts' # sortOpts
    /\ handed' = None
    /\ UNCHANGED <<fixedInSort, sortState, sortLog>>

NextSort == SortStep \/ OnChangeSorts \/ SortOptionsChange

SpecSort == InitSort /\ [][NextSort]_vars

\* ------------------------------------------------- claims over SpecHoz
\* pixel offset of the leading edge of center column i (0-based)
LeadingEdge(center, i) == sum(Slice(center, 0, i))

TrailingEdge(center, i) == sum(Slice(center, 0, i + 1))

HozVirtualDone == hoz # None /\ useVirtual.horizontal

\* C3: with horizontal virtualization enabled, every center column whose
\* pixel extent intersects the visible interval
\* [offsetX, offsetX + maxRenderWidth) has its index in [leftIndex, rightIndex).
C3_VisibleColumnsMaterialized ==
    HozVirtualDone =>
        \A i \in 0..(Len(flat.center) - 1) :
            (Max(LeadingEdge(flat.center, i), offsetX)
                < Min(TrailingEdge(flat.center, i), offsetX + maxRenderWidth))
            => (hoz.leftIndex <= i /\ i < hoz.rightIndex)

\* C4: every range returned by getHorizontalRenderRange satisfies
\* 0 <= leftIndex <= rightIndex <= centerColumnCount, with horizontal
\* virtualization enabled or disabled.
C4_RangeWithinCenter ==
    hoz # None =>
        (0 <= hoz.leftIndex /\ hoz.leftIndex <= hoz.rightIndex
         /\ hoz.rightIndex <= Len(flat.center))

\* C9: with horizontal virtualization enabled, either rightIndex is the
\* center column count or the widths of [leftIndex, rightIndex) sum to at
\* least maxRenderWidth + (offsetX - leftBlank) + 2 * OVERSCAN_SIZE.
C9_RightIndexReachesThreshold ==
    HozVirtualDone =>
        (hoz.rightIndex = Len(flat.center)
         \/ sum(Slice(flat.center, hoz.leftIndex, hoz.rightIndex))
                >= maxRenderWidth + (offsetX - hoz.leftBlank) + 2 * OVERSCAN_SIZE)

\* C10: with horizontal virtualization enabled, leftIndex is the smallest
\* center index whose trailing edge reaches max(0, offsetX - OVERSCAN_SIZE)
\* (the column count if none does), leftBlank is the width before leftIndex,
\* and leftBlank <= max(0, offsetX - OVERSCAN_SIZE) when leftIndex is a column.
C10_LeftIndexIsFirstReaching ==
    HozVirtualDone =>
        LET ov == Max(0, offsetX - OVERSCAN_SIZE)
            reaching == {i \in 0..(Len(flat.center) - 1) : TrailingEdge(flat.center, i) >= ov}
        IN /\ IF reaching = {}
              THEN hoz.leftIndex = Len(flat.center)
              ELSE /\ hoz.leftIndex \in reaching
                   /\ \A i \in reaching : hoz.leftIndex <= i
           /\ hoz.leftBlank = LeadingEdge(flat.center, hoz.leftIndex)
           /\ (hoz.leftIndex < Len(flat.center) => hoz.leftBlank <= ov)

\* a range whose left loop skipped a column and stopped at a column whose
\* trailing edge is exactly the threshold
C10_Witness ==
    /\ HozVirtualDone
    /\ 0 < hoz.leftIndex
    /\ hoz.leftIndex < Len(flat.center)
    /\ TrailingEdge(flat.center, hoz.leftIndex) = offsetX - OVERSCAN_SIZE

\* C12: every range preserves the total width of the center group:
\* leftBlank + the widths of [leftIndex, rightIndex) + rightBlank is the sum
\* of all center widths, and rightBlank is the sum of the widths of the
\* center columns at indices >= rightIndex, for every offsetX and
\* maxRenderWidth, with horizontal virtualization enabled or disabled.
C12_TotalWidthPreserved ==
    hoz # None =>
        /\ hoz.leftBlank + sum(Slice(flat.center, hoz.leftIndex, hoz.rightIndex)) + hoz.rightBlank
              = sum(flat.center)
        /\ hoz.rightBlank = sum(Slice(flat.center, hoz.rightIndex, Len(flat.center)))

\* a virtualized range with a blank on both sides of the rendered columns
C12_Witness ==
    /\ HozVirtualDone
    /\ hoz.leftBlank > 0
    /\ hoz.leftIndex < hoz.rightIndex
    /\ hoz.rightBlank > 0

HozExampleDone ==
    /\ hoz # None
    /\ flat = HozExample.flat
    /\ useVirtual = HozExample.useVirtual
    /\ offsetX = HozExample.offsetX
    /\ maxRenderWidth = HozExample.maxRenderWidth

\* C11: for center widths [50,50,50,50,50], maxRenderWidth 100, offsetX 120
\* and an overscan of 20 (here in units of 5 pixels), leftIndex is 2 and the
\* materialized columns reach 260 px from offset 0 or rightIndex is 5.
C11_ExampleRange ==
    HozExampleDone =>
        /\ hoz.leftIndex = 2
        /\ \/ hoz.rightIndex = Len(flat.center)
           \/ LeadingEdge(flat.center, hoz.rightIndex)
                  >= offsetX + maxRenderWidth + 2 * OVERSCAN_SIZE

\* ----------------------------------------------- claims over SpecRender
\* a cell for which renderCell created a td in the current pass
CellRendered == cell # None /\ ~cell.skipped

\* ... from well-formed requested spans (both at least 1)
WellFormedCellRendered ==
    CellRendered /\ cell.input.colSpan >= 1 /\ cell.input.rowSpan >= 1

\* column j of the full flat list is materialized in the current pass
Materialized(j) ==
    /\ 0 <= j
    /\ j < FullCount(flat)
    /\ \/ j < flat.left
       \/ j >= FullCount(flat) - flat.right
       \/ (hoz.leftIndex <= j - flat.left /\ j - flat.left < hoz.rightIndex)

\* C1: for every rendered cell with origin column c and clipped colSpan k,
\* every column index in [c, c + k) is a materialized column of the pass
\* (fixed-left, center within [leftIndex, rightIndex), or fixed-right).
\* Stated for cells with well-formed requested spans.
C1_ColSpanWithinMaterialized ==
    WellFormedCellRendered =>
        \A j \in cell.colIndex..(cell.colIndex + cell.colSpan - 1) : Materialized(j)

\* C2: for every rendered cell at row r with requested rowSpan s >= 1 the
\* effective rowSpan is min(s, bottomIndex - r), it is at least 1 and ends
\* within bottomIndex, and both the span registered in the tracker and the
\* rowSpan rendered on the cell are this clipped value.
\* Stated for cells with well-formed requested spans.
C2_RowSpanClipped ==
    WellFormedCellRendered =>
        /\ cell.rowSpan = Min(cell.input.rowSpan, ver.bottomIndex - cell.rowIndex)
        /\ cell.rowSpan >= 1
        /\ cell.rowIndex + cell.rowSpan <= ver.bottomIndex
        /\ cell.added =>
              \E rect \in rects : /\ rect.top = cell.rowIndex
                                  /\ rect.left = cell.colIndex
                                  /\ rect.bottom = cell.rowIndex + cell.rowSpan
        /\ cell.tdRowSpan = cell.rowSpan

\* C13: a malformed span (getSpanRect with right <= colIndex or
\* bottom <= rowIndex, or cell props with colSpan or rowSpan <= 0) is
\* rejected at the renderCell call that introduced it: no td is ever
\* created from such a span.
C13_MalformedSpanRejected ==
    CellRendered => (cell.input.colSpan >= 1 /\ cell.input.rowSpan >= 1)

\* C17: for every rendered cell whose requested colSpan is at least 1 the
\* colSpan after clipping is at least 1, in every column group; the span
\* registered in the tracker is at least one column wide, and the cell of
\* the last column ends at the full column count.
C17_ColSpanAtLeastOne ==
    WellFormedCellRendered =>
        /\ cell.colSpan >= 1
        /\ cell.added =>
              \A rect \in rects :
                  (rect.top = cell.rowIndex /\ rect.left = cell.colIndex)
                  => rect.right > rect.left
        /\ cell.colIndex = FullCount(flat) - 1
              => cell.colIndex + cell.colSpan = FullCount(flat)

\* C16: within one render pass the span tracker is driven in row-major
\* order on a fresh tracker: the pass starts with no registered span; rows
\* go up by one from topIndex to bottomIndex - 1; the first tracker call of
\* a row is its only stripUpwards(rowIndex); testSkip is called in strictly
\* ascending colIndex; add follows the testSkip of the same cell that
\* reported it not covered, with a clipped colSpan > 1 or rowSpan > 1; every
\* registered span was added in the current pass.
C16_RowMajorFreshTracker ==
    /\ (pc = "row" /\ rowIndex = ver.topIndex) => (rects = {} /\ calls = << >>)
    /\ pc \in {"row", "cells", "done"} =>
          \A rect \in rects : ver.topIndex <= rect.top /\ rect.top <= rowIndex
    /\ (pc \in {"row", "cells", "done"} /\ calls # << >>) =>
          LET r == calls[1].rowIndex
              rest == 2..Len(calls)
          IN /\ calls[1].op = "stripUpwards"
             /\ r = IF pc = "cells" THEN rowIndex ELSE rowIndex - 1
             /\ ver.topIndex <= r /\ r < ver.bottomIndex
             /\ prevRow = IF r = ver.topIndex THEN -1 ELSE r - 1
             /\ pc = "done" => r = ver.bottomIndex - 1
             /\ \A i \in rest : calls[i].op \in {"testSkip", "add"} /\ calls[i].rowIndex = r
             /\ \A i, j \in rest :
                   (i < j /\ calls[i].op = "testSkip" /\ calls[j].op = "testSkip")
                   => calls[i].colIndex < calls[j].colIndex
             /\ \A i \in rest :
                   calls[i].op = "add" =>
                       /\ i > 2
                       /\ calls[i - 1].op = "testSkip"
                       /\ calls[i - 1].colIndex = calls[i].colIndex
                       /\ ~calls[i - 1].result
                       /\ (calls[i].colSpan > 1 \/ calls[i].rowSpan > 1)

\* the second row of a pass: a cell covered by a span of the row above is
\* skipped, and another cell of the row registers a span
C16_Witness ==
    /\ pc = "cells"
    /\ prevRow >= 0
    /\ \E i \in 2..Len(calls) : calls[i].op = "testSkip" /\ calls[i].result
    /\ \E i \in 2..Len(calls) : calls[i].op = "add"

\* ------------------------------------- claims over SpecView and SpecLife
AppliedViewport ==
    [offsetY |-> offsetY, maxRenderHeight |-> maxRenderHeight, maxRenderWidth |-> maxRenderWidth]

\* C5: once a viewport event has been processed with virtualization enabled,
\* the applied offsetY, maxRenderHeight and maxRenderWidth are each less than
\* OVERSCAN_SIZE/2 away from that event, so the visible interval lies inside
\* the applied interval widened by OVERSCAN_SIZE on both sides; and with
\* horizontal virtualization enabled the applied offsetX is less than
\* OVERSCAN_SIZE/2 away from scrollLeft once the component is mounted.
C5_AppliedStateWithinHalfOverscan ==
    /\ (latest # None /\ latest.passed) =>
          /\ 2 * Abs(latest.evt.offsetY - offsetY) < OVERSCAN_SIZE
          /\ 2 * Abs(latest.evt.maxRenderHeight - maxRenderHeight) < OVERSCAN_SIZE
          /\ 2 * Abs(latest.evt.maxRenderWidth - maxRenderWidth) < OVERSCAN_SIZE
          /\ offsetY - OVERSCAN_SIZE <= latest.evt.offsetY
          /\ latest.evt.offsetY + latest.evt.maxRenderHeight
                <= offsetY + maxRenderHeight + OVERSCAN_SIZE
    /\ (life # "constructed" /\ useVirtual.horizontal) =>
          2 * Abs(scrollLeft - offsetX) < OVERSCAN_SIZE

\* a suppressed viewport event and a suppressed scroll, both off the applied state
C5_Witness ==
    /\ latest # None
    /\ latest.passed
    /\ ~latest.fired
    /\ latest.evt.offsetY # offsetY
    /\ last.op = "hscroll"
    /\ useVirtual.horizontal
    /\ scrollLeft # offsetX

\* C6 as claimed: a viewport event (after the first) or a horizontal scroll
\* triggers a setState only when the change exceeds OVERSCAN_SIZE/2; a change
\* of at most OVERSCAN_SIZE/2, exactly OVERSCAN_SIZE/2 included, is skipped.
C6_RecomputeOnlyAboveHalfOverscan ==
    (last.op \in {"viewport", "hscroll"} /\ last.delta >= 0) =>
        (last.fired <=> 2 * last.delta > OVERSCAN_SIZE)

\* C6 as amended: a viewport event that passes the virtualization filter
\* triggers a setState exactly when it is the first such event or some change
\* against the last applied event is at least OVERSCAN_SIZE/2; a horizontal
\* scroll sets offsetX exactly when horizontal virtualization is on and the
\* change is at least OVERSCAN_SIZE/2; a skipped event leaves the applied
\* state equal to the last applied event.
C6_RecomputeIffHalfOverscanReached ==
    /\ (last.op \in {"viewport", "hscroll"} /\ last.delta >= 0) =>
          (last.fired <=> 2 * last.delta >= OVERSCAN_SIZE)
    /\ (last.op = "viewport" /\ last.delta < 0) => (last.fired <=> latest.passed)
    /\ (last.op = "hscroll" /\ last.delta < 0) => ~last.fired
    /\ distinctPrev # None => AppliedViewport = distinctPrev

\* a viewport event applied for a change of exactly OVERSCAN_SIZE/2
C6_Witness ==
    /\ last.op = "viewport"
    /\ 2 * last.delta = OVERSCAN_SIZE
    /\ last.fired

\* C7 as claimed: a viewport event that differs from the previous event by
\* less than OVERSCAN_SIZE/2 in offsetY, maxRenderWidth and maxRenderHeight
\* never triggers a setState, also after suppressed events.
C7_NearPreviousEventNeverRecomputes ==
    (last.op = "viewport" /\ last.nearPrev) => ~last.fired

\* C7 as amended: a viewport event that differs by less than OVERSCAN_SIZE/2
\* in all three fields from a previous event that itself triggered the
\* setState does not trigger another one.
C7_NearAppliedEventNeverRecomputes ==
    (last.op = "viewport" /\ last.nearPrev /\ last.prevFired) => ~last.fired

\* an event suppressed right after an applied one, off the applied state
C7_Witness ==
    /\ last.op = "viewport"
    /\ last.nearPrev
    /\ last.prevFired
    /\ ~last.fired
    /\ latest.evt # AppliedViewport

\* C8: after componentWillUnmount no subscription of initSubscriptions is
\* active, no animation-frame timer is pending, and no handler runs again.
C8_NoCallbackAfterUnmount ==
    life = "unmounted" =>
        /\ last.op = "unmount"
        /\ subs = {}
        /\ \A c \in Chains : ~chains[c].timer

\* unmounted while the resolver's animation-frame timer was still pending
C8_Witness ==
    /\ life = "unmounted"
    /\ flowRoot = "fn"
    /\ chains["virtual"].root = "none"

\* the flowRoot resolver function is in use by a subscribed chain
ResolverInUse(c) == life = "mounted" /\ flowRoot = "fn" /\ c \in subs

\* C14: a flowRoot resolver function is evaluated once per animation frame,
\* repeatedly, until its result is ready: while a subscribed chain holds a
\* not-yet-ready result, its next evaluation is scheduled, with no component
\* update needed.
C14_ResolverReevaluatedUntilReady ==
    \A c \in Chains :
        (ResolverInUse(c) /\ chains[c].root = "notReady") => chains[c].timer

\* C14 as the code has it: the resolver is evaluated once, on the first
\* animation frame after a component mount or update; after that frame no
\* evaluation is scheduled, whatever the resolver returned: a chain with
\* nothing scheduled holds the result of that one evaluation, ready or not.
C14_ResolverEvaluatedOncePerUpdate ==
    /\ last.op = "frame" => \A c \in Chains : ~chains[c].timer
    /\ \A c \in Chains :
          /\ chains[c].timer => ResolverInUse(c)
          /\ (ResolverInUse(c) /\ last.op \in {"mount", "props"}) => chains[c].timer
          /\ (ResolverInUse(c) /\ ~chains[c].timer) => chains[c].root \in {"notReady", "element"}

\* the frame after an update has run the resolver, which was not ready, and
\* nothing is scheduled to run it again
C14_Witness ==
    /\ last.op = "frame"
    /\ ResolverInUse("virtual")
    /\ chains["virtual"].root = "notReady"
    /\ ~chains["virtual"].timer

\* ---------------------------------------------- claims over SpecMeasure
\* C15: updateRowHeightManager reports only rows of the data that were laid
\* out: every updateRow call is for a painted data row with
\* 0 <= rowIndex < dataSource.length; the placeholder row of EmptyTable is
\* never reported.
C15_OnlyDataRowsMeasured ==
    \A u \in measure.updates : u.data /\ 0 <= u.rowIndex /\ u.rowIndex < rowCount

C19_SortsControlledOrLatest ==
    /\ handed # None =>
          handed = IF sortOpts.sorts # None THEN sortOpts.sorts
                   ELSE IF sortLog = << >>
                        THEN (IF sortOpts.defaultSorts # None THEN sortOpts.defaultSorts
                              ELSE SortList(<< >>))
                        ELSE sortLog[Len(sortLog)].arg
    /\ sortLog # << >> =>
          LET arg == sortLog[Len(sortLog)].arg
          IN /\ sortLog[Len(sortLog)].op = "setStateAtKey"
             /\ sortState = arg
             /\ IF sortOpts.onChangeSorts
                THEN sortLog = <<[op |-> "opts.onChangeSorts", arg |-> arg],
                                 [op |-> "setStateAtKey", arg |-> arg]>>
                ELSE Len(sortLog) = 1

\* uncontrolled, with non-empty defaultSorts: the last onChangeSorts call
\* passed the empty list and the next sortStep hands the empty list on
C19_Witness ==
    /\ handed = SortList(<< >>)
    /\ sortOpts.sorts = None
    /\ sortOpts.defaultSorts = SortList(<<"a">>)
    /\ sortOpts.onChangeSorts
    /\ sortLog # << >>
    /\ sortState = SortList(<< >>)
====
